---- MODULE Spec2Model ----
(***************************************************************************)
(* Model of csv_downloader.py: a Streamlit script that fetches the rows of *)
(* a Dune query, builds a table, encodes it as CSV and offers it for       *)
(* download under a sanitized file name.                                   *)
(*                                                                         *)
(* Text is modelled as a sequence of one-character strings, so that        *)
(* strip, re.sub, rsplit and f-string formatting are computed character by *)
(* character as the code computes them.                                    *)
(***************************************************************************)
EXTENDS Integers, Sequences, FiniteSets, TLC

VARIABLES
    \* --- st.session_state and the widgets of the app ---
    user_api_key,      \* st.session_state.user_api_key
    query_id,          \* st.session_state.query_id
    download_payload,  \* st.session_state.download_payload (None or a record)
    name_input,        \* the file-name text input: its default and its value raw_name
                       \* (None: not on the page)
    download_button,   \* the download button: its data and its file_name final_name
                       \* (None: not on the page)
    messages,          \* what the current script run surfaced (warning/error/success/json)
    request,           \* the outbound call the current script run issued (None: none)
    calls,             \* how many times the current script run called requests.get
    pc,                \* "idle": the script run ended; "fetching": inside requests.get
    event,             \* the user interaction that started the current script run
    last_attempt,      \* history: the most recent fetch with an API key that came back
    returned,          \* what requests.get came back with in the current script run
                       \* and the payload held until then (None: it was not called,
                       \* or has not come back)
    \* --- safe_filename applied to arbitrary arguments ---
    san_name, san_default, san_result, san_again,
    san_pc,            \* "start", "once" (san_result set), "twice" (san_again set)
    \* --- pd.DataFrame / convert_df_to_csv applied to arbitrary rows ---
    norm_rows, norm_df, norm_csv

appVars  == <<user_api_key, query_id, download_payload, name_input, download_button,
              messages, request, calls, pc, event, returned, last_attempt>>
sanVars  == <<san_name, san_default, san_result, san_again, san_pc>>
normVars == <<norm_rows, norm_df, norm_csv>>
vars     == <<appVars, sanVars, normVars>>

\* Python's None, and "no such widget on the page".
None == [t |-> "None"]

(***************************************************************************)
(* Bounds of the model.                                                    *)
(***************************************************************************)
MaxNameLen    == 3   \* longest generated `name` argument of safe_filename
MaxDefaultLen == 2   \* longest generated `default` argument of safe_filename

(***************************************************************************)
(* Text helpers.                                                           *)
(***************************************************************************)
\* Python's str.strip() / regex \s: two representatives of the whitespace class.
Whitespace == {" ", "\t"}

\* The character class of line 23: [\\/:"*?<>|]
Reserved == {"\\", "/", ":", "\"", "*", "?", "<", ">", "|"}

\* All sequences over S of length at most n.
SeqsUpTo(S, n) == UNION {[1..k -> S] : k \in 0..n}

\* s without its leading characters of class C.
RECURSIVE LStrip(_, _)
LStrip(s, C) ==
    IF s # <<>> /\ Head(s) \in C THEN LStrip(Tail(s), C) ELSE s

\* s without its trailing characters of class C.
RECURSIVE RStrip(_, _)
RStrip(s, C) ==
    IF s # <<>> /\ s[Len(s)] \in C THEN RStrip(SubSeq(s, 1, Len(s) - 1), C) ELSE s

\* str.strip(): leading and trailing whitespace removed.
Strip(s) == RStrip(LStrip(s, Whitespace), Whitespace)

\* re.sub(r"[C]+", rep, s): every maximal run of characters of class C becomes
\* the single character rep.
RECURSIVE SubRuns(_, _, _)
SubRuns(s, C, rep) ==
    IF s = <<>> THEN <<>>
    ELSE IF Head(s) \in C
         THEN <<rep>> \o SubRuns(LStrip(Tail(s), C), C, rep)
         ELSE <<Head(s)>> \o SubRuns(Tail(s), C, rep)

\* re.sub(r"[C]", rep, s): every character of class C becomes rep.
SubEach(s, C, rep) == [i \in 1..Len(s) |-> IF s[i] \in C THEN rep ELSE s[i]]

\* A plausible slip in line 23: the reserved runs become a blank, not "_".
safe_filename_blank(name, default) ==
    LET n1 == Strip(name)
        n2 == SubRuns(n1, Whitespace, " ")
        n3 == SubRuns(n2, Reserved, " ")
    IN  IF n3 = <<>> THEN default ELSE n3

\* A plausible slip in line 23: the "+" left out of the character class.
safe_filename_each(name, default) ==
    LET n1 == Strip(name)
        n2 == SubRuns(n1, Whitespace, " ")
        n3 == SubEach(n2, Reserved, "_")
    IN  IF n3 = <<>> THEN default ELSE n3

\* def safe_filename(name, default), lines 20-24.
safe_filename(name, default) ==
    LET n1 == Strip(name)                        \* name.strip()
        n2 == SubRuns(n1, Whitespace, " ")       \* re.sub(r"\s+", " ", name)
        n3 == SubRuns(n2, Reserved, "_")         \* re.sub(r'[\\/:"*?<>|]+', "_", name)
    IN  IF n3 = <<>> THEN default ELSE n3        \* name or default

(***************************************************************************)
(* Number formatting and UTF-8.                                            *)
(***************************************************************************)
DigitChar(d) == <<"0", "1", "2", "3", "4", "5", "6", "7", "8", "9">>[d + 1]

\* str(n) / f"{n}" / "%d" of a natural number: its decimal digits.
RECURSIVE Decimal(_)
Decimal(n) ==
    IF n < 10 THEN <<DigitChar(n)>> ELSE Decimal(n \div 10) \o <<DigitChar(n % 10)>>

\* The code points of the characters a CSV of the model is made of; they are
\* ASCII, so str.encode("utf-8") yields one byte per character.
CodePoint(c) ==
    CASE c = "\n" -> 10 [] c = "," -> 44 [] c = "." -> 46
      [] c = "0" -> 48 [] c = "1" -> 49 [] c = "2" -> 50 [] c = "3" -> 51
      [] c = "4" -> 52 [] c = "5" -> 53 [] c = "6" -> 54 [] c = "7" -> 55
      [] c = "8" -> 56 [] c = "9" -> 57
      [] c = "a" -> 97 [] c = "b" -> 98 [] c = "c" -> 99

\* text.encode("utf-8")
EncodeUtf8(text) == [i \in 1..Len(text) |-> CodePoint(text[i])]

(***************************************************************************)
(* Row records, pd.DataFrame(rows) and DataFrame.to_csv.                   *)
(* A record (a JSON object, a Python dict) is a sequence of <<key, value>> *)
(* pairs in the order of the keys; its keys are distinct.                  *)
(***************************************************************************)
MaxRows == 2         \* longest generated sequence of row records

Keys   == {"a", "b"}
Values == {1, 2}

\* A cell of a table: a value, or NaN, the marker pandas puts where a record
\* has no value for a column.
Cell(v) == [val |-> v]
NaN     == [t |-> "NaN"]

RecordKeys(rec) == [i \in 1..Len(rec) |-> rec[i][1]]

HasKey(rec, k) == \E i \in 1..Len(rec) : rec[i][1] = k

Lookup(rec, k) == rec[CHOOSE i \in 1..Len(rec) : rec[i][1] = k][2]

\* The records over Keys: every non-empty sequence of distinct keys, each with
\* a value (a row of a query result has at least one column).
Records ==
    {rec \in SeqsUpTo(Keys \X Values, Cardinality(Keys)) :
        /\ rec # <<>>
        /\ \A i, j \in 1..Len(rec) : i # j => rec[i][1] # rec[j][1]}

\* The rows of the running example: [{"a":1,"b":2},{"b":3,"a":4}]
ExampleRows == << << <<"a", 1>>, <<"b", 2>> >>, << <<"b", 3>>, <<"a", 4>> >> >>

\* ks followed by the elements of more that are not yet in it, in order.
RECURSIVE AppendNew(_, _)
AppendNew(ks, more) ==
    IF more = <<>> THEN ks
    ELSE IF \E i \in 1..Len(ks) : ks[i] = Head(more)
         THEN AppendNew(ks, Tail(more))
         ELSE AppendNew(Append(ks, Head(more)), Tail(more))

\* The columns pandas gives a list of dicts: the keys of all the records, each
\* once, in the order in which they first appear.
RECURSIVE UnionColumns(_, _)
UnionColumns(ks, rows) ==
    IF rows = <<>> THEN ks
    ELSE UnionColumns(AppendNew(ks, RecordKeys(Head(rows))), Tail(rows))

\* A plausible slip: the columns sorted (what pandas does with rows that are
\* not dicts) instead of kept in the order of first appearance.
DataFrame_sorted(rows) ==
    LET all  == UnionColumns(<<>>, rows)
        S    == {all[i] : i \in 1..Len(all)}
        cols == SelectSeq(<<"a", "b">>, LAMBDA k : k \in S)
    IN  [columns |-> cols,
         data    |-> [r \in 1..Len(rows) |->
                        [c \in 1..Len(cols) |->
                            IF HasKey(rows[r], cols[c])
                            THEN Cell(Lookup(rows[r], cols[c])) ELSE NaN]]]

\* A plausible slip: the values of a record placed by their position in the
\* record instead of under the column of their key.
DataFrame_positional(rows) ==
    LET cols == UnionColumns(<<>>, rows)
    IN  [columns |-> cols,
         data    |-> [r \in 1..Len(rows) |->
                        [c \in 1..Len(cols) |->
                            IF c <= Len(rows[r])
                            THEN Cell(rows[r][c][2]) ELSE NaN]]]

\* pd.DataFrame(rows), line 74: the columns, and one data row per record with
\* the values placed under their keys and NaN where the record has no such key.
DataFrame(rows) ==
    LET cols == UnionColumns(<<>>, rows)
    IN  [columns |-> cols,
         data    |-> [r \in 1..Len(rows) |->
                        [c \in 1..Len(cols) |->
                            IF HasKey(rows[r], cols[c])
                            THEN Cell(Lookup(rows[r], cols[c])) ELSE NaN]]]

\* len(df)
DfLen(df) == Len(df.data)

\* df.head(n)
DfHead(df, n) ==
    [columns |-> df.columns,
     data    |-> SubSeq(df.data, 1, IF Len(df.data) < n THEN Len(df.data) ELSE n)]

\* The cells of a line joined by the delimiter.
RECURSIVE JoinCells(_)
JoinCells(cells) ==
    IF cells = <<>> THEN <<>>
    ELSE IF Len(cells) = 1 THEN cells[1]
         ELSE cells[1] \o <<",">> \o JoinCells(Tail(cells))

RECURSIVE ConcatLines(_)
ConcatLines(ls) == IF ls = <<>> THEN <<>> ELSE Head(ls) \o ConcatLines(Tail(ls))

\* How to_csv writes a value: a column of integers that holds a NaN is a
\* float64 column, whose values are written with ".0" and whose NaN is empty.
CsvCell(df, r, c) ==
    LET v      == df.data[r][c]
        hasNaN == \E q \in 1..Len(df.data) : df.data[q][c] = NaN
    IN  IF v = NaN THEN <<>>
        ELSE IF hasNaN THEN Decimal(v.val) \o <<".", "0">> ELSE Decimal(v.val)

\* df.to_csv(index=False): the header line, then one line per data row.
ToCsv(df) ==
    LET header == JoinCells([c \in 1..Len(df.columns) |-> <<df.columns[c]>>]) \o <<"\n">>
        line(r) == JoinCells([c \in 1..Len(df.columns) |-> CsvCell(df, r, c)]) \o <<"\n">>
    IN  header \o ConcatLines([r \in 1..Len(df.data) |-> line(r)])

\* def convert_df_to_csv(df), lines 9-11.
convert_df_to_csv(df) == EncodeUtf8(ToCsv(df))

(***************************************************************************)
(* The HTTP exchange of fetch_dune_data and the JSON value it returns.     *)
(* A JSON value is [t |-> "null"], [t |-> "num", v |-> n],                 *)
(* [t |-> "str", v |-> characters], [t |-> "arr", v |-> values] or         *)
(* [t |-> "obj", v |-> <<key, value>> pairs]; a value that is the rows of  *)
(* a result is [t |-> "rows", v |-> records] (an array of objects).        *)
(***************************************************************************)
MaxSecond == 1       \* the seconds of the clock readings of line 77: 0..MaxSecond

DefaultQueryId == 2833363
PreviewRows    == 200

\* What the user may have in the API key field: nothing, a key, and a key
\* pasted with a blank in front of it.
ApiKeys  == {"", "key-A", " key-B"}

\* The characters of a key.
KeyText(k) ==
    CASE k = ""       -> <<>>
      [] k = "key-A"  -> <<"k", "e", "y", "-", "A">>
      [] k = " key-B" -> <<" ", "k", "e", "y", "-", "B">>
QueryIds == {7, DefaultQueryId}

JNull      == [t |-> "null"]
JNum(n)    == [t |-> "num", v |-> n]
JStr(cs)   == [t |-> "str", v |-> cs]
JArr(vs)   == [t |-> "arr", v |-> vs]
JObj(kvs)  == [t |-> "obj", v |-> kvs]
JRows(rws) == [t |-> "rows", v |-> rws]

\* The value of an expression that raised a TypeError.
TypeError == [t |-> "TypeError"]

\* The characters of the two keys line 72 looks for.
KeyChars(key) ==
    CASE key = "result" -> <<"r", "e", "s", "u", "l", "t">>
      [] key = "rows"   -> <<"r", "o", "w", "s">>

IsSubstring(p, cs) ==
    \E i \in 1..(Len(cs) - Len(p) + 1) : SubSeq(cs, i, i + Len(p) - 1) = p

\* Python's `key in value`: membership among the keys of a dict, substring of a
\* str, element of a list; a TypeError on None and on a number.
PyIn(key, value) ==
    CASE value.t = "obj" ->
            IF \E i \in 1..Len(value.v) : value.v[i][1] = key THEN "True" ELSE "False"
      [] value.t = "str" ->
            IF IsSubstring(KeyChars(key), value.v) THEN "True" ELSE "False"
      [] value.t \in {"arr", "rows"} ->
            IF value.t = "arr" /\ \E i \in 1..Len(value.v) : value.v[i] = JStr(KeyChars(key))
            THEN "True" ELSE "False"
      [] OTHER -> "TypeError"

\* Python's value[key] with a str key: the member of a dict (the key is there
\* whenever the code asks); a TypeError on a str and on a list.
PyGetItem(value, key) ==
    IF value.t = "obj"
    THEN value.v[CHOOSE i \in 1..Len(value.v) : value.v[i][1] = key][2]
    ELSE TypeError

\* The rows the service answers with in the model of the app.
AppRowSets ==
    { <<>>,
      ExampleRows,
      << << <<"b", 1>> >>, << <<"a", 2>>, <<"b", 3>> >> >> }

\* The JSON bodies of the model: results with rows, and the ways a body can
\* lack result.rows.
GoodBodies == {JObj(<< <<"result", JObj(<< <<"rows", JRows(rws)>> >>)>> >>) : rws \in AppRowSets}

BadBodies ==
    { JObj(<<>>),                                                \* {}
      JObj(<< <<"error", JStr(<<"n", "o">>)>> >>),               \* {"error": "no"}
      JObj(<< <<"result", JObj(<<>>)>> >>),                      \* {"result": {}}
      JObj(<< <<"result", JNull>> >>),                           \* {"result": null}
      JObj(<< <<"result", JNum(5)>> >>),                         \* {"result": 5}
      JObj(<< <<"result", JStr(<<"r", "o", "w", "s">>)>> >>),    \* {"result": "rows"}
      JObj(<< <<"result", JArr(<<>>)>> >>),                      \* {"result": []}
      JArr(<<>>),                                                \* []
      JNum(5) }                                                  \* 5

\* {"result": {"rows": [{"a":1,"b":2},{"b":3,"a":4}]}}
ExampleBody == JObj(<< <<"result", JObj(<< <<"rows", JRows(ExampleRows)>> >>)>> >>)

\* A body that is not JSON: r.json() raises.
NotJson == [t |-> "notjson"]

Bodies == GoodBodies \cup BadBodies \cup {NotJson}

\* The reason phrase of a status code.
Reason(status) ==
    CASE status = 200 -> "OK"
      [] status = 204 -> "No Content"
      [] status = 304 -> "Not Modified"
      [] status = 403 -> "Forbidden"
      [] status = 500 -> "Internal Server Error"

\* What requests.get can come back with: a transport failure (an exception that
\* is a RequestException), or a response with a status and a body.  The body
\* of a 4xx/5xx response is never read, so one body stands for all of them.
ConnectionError == [kind |-> "ConnectionError"]

\* requests.get, line 16, checks every header value against ^\S[^\r\n]*$|^$
\* before anything is sent, and raises InvalidHeader (a RequestException) for
\* a value that does not match.
ValidHeaderValue(k) ==
    LET cs == KeyText(k)
    IN  \/ cs = <<>>
        \/ /\ cs[1] \notin Whitespace \cup {"\r", "\n"}
           /\ \A i \in 1..Len(cs) : cs[i] \notin {"\r", "\n"}

HeaderName == "X-DUNE-API-KEY"

\* The text of an InvalidHeader names the part of the header it rejects: the
\* header's value, quoted (requests since 2.28), or the header's name (before).
InvalidHeader(part) == [kind |-> "InvalidHeader", part |-> part]

Response(status, body) == [kind |-> "response", status |-> status, body |-> body]

Outcomes ==
    {ConnectionError, InvalidHeader("value"), InvalidHeader("name")}
      \cup {Response(200, b) : b \in Bodies}
      \cup {Response(304, b) : b \in {NotJson, ExampleBody}}
      \cup {Response(st, NotJson) : st \in {204, 403, 500}}

\* A plausible slip: only the client errors raised.
raise_for_status_4xx(status) == 400 <= status /\ status < 500

\* r.raise_for_status(), line 17: an HTTPError for 4xx and 5xx, and for
\* nothing else.
raise_for_status(status) == 400 <= status /\ status < 600

\* The pieces of the URL of line 14.
Url(qid) == <<"https://api.dune.com/api/v1/query/", Decimal(qid), "/results">>

\* The call of lines 14-16.
Request(api_key, qid) ==
    [method |-> "GET", url |-> Url(qid), headers |-> << <<HeaderName, api_key>> >>]

\* What str(e) of an exception is made of.
ExcConnection(qid)       == [type |-> "ConnectionError", url |-> Url(qid)]
ExcInvalidHeader(quoted) == [type |-> "InvalidHeader", quoted |-> quoted]
ExcJsonDecode            == [type |-> "JSONDecodeError"]
ExcTypeError             == [type |-> "TypeError"]

\* def fetch_dune_data, lines 13-18, once requests.get came back with
\* `outcome`: the JSON value, or the exception raised and its text.  Which exception
\* r.json() raises on a body that is not JSON depends on the requests
\* release (a RequestException since 2.27, a plain ValueError before):
\* `json_error` is the one this build raises.
fetch_dune_data(api_key, qid, outcome, json_error) ==
    IF outcome.kind = "ConnectionError"
    THEN [raised |-> "RequestException", exc |-> ExcConnection(qid)]
    ELSE IF outcome.kind = "InvalidHeader"
    THEN [raised |-> "RequestException",
          exc    |-> ExcInvalidHeader(IF outcome.part = "value" THEN api_key ELSE HeaderName)]
    ELSE IF raise_for_status(outcome.status)
    THEN [raised |-> "HTTPError", status |-> outcome.status, reason |-> Reason(outcome.status)]
    ELSE IF outcome.body = NotJson
    THEN [raised |-> json_error, exc |-> ExcJsonDecode]
    ELSE [raised |-> "none", resp |-> outcome.body]

JsonErrors == {"RequestException", "Exception"}

(***************************************************************************)
(* The fetch handler, lines 65-106.                                        *)
(***************************************************************************)
\* A reading of the UTC clock, datetime.now(timezone.utc).
Clocks ==
    {[year |-> 2025, month |-> 1, day |-> 1, hour |-> 0, minute |-> 0, second |-> sec] :
        sec \in 0..MaxSecond}

\* n in decimal, zero-padded to two digits (%m, %d, %H, %M, %S).
Pad2(n) == IF n < 10 THEN <<"0">> \o Decimal(n) ELSE Decimal(n)

\* strftime("%Y%m%d_%H%M%S"), line 77.
Strftime(clock) ==
    Decimal(clock.year) \o Pad2(clock.month) \o Pad2(clock.day) \o <<"_">>
      \o Pad2(clock.hour) \o Pad2(clock.minute) \o Pad2(clock.second)

DuneQueryPrefix == <<"d", "u", "n", "e", "_", "q", "u", "e", "r", "y", "_">>
CsvExt          == <<".", "c", "s", "v">>

\* f"dune_query_{query_id}_{utc_ts}.csv", line 78.
default_name(qid, utc_ts) ==
    DuneQueryPrefix \o Decimal(qid) \o <<"_">> \o utc_ts \o CsvExt

\* A plausible slip in line 72: the rows tested for truth
\* (`"result" in resp and resp["result"].get("rows")`), which an empty list fails.
FormatCheck_truthy(resp) ==
    LET c1 == PyIn("result", resp)
    IN  IF c1 # "True" THEN c1
        ELSE LET c2 == PyIn("rows", PyGetItem(resp, "result"))
                 rows == PyGetItem(PyGetItem(resp, "result"), "rows")
             IN  IF c2 = "True" /\ rows # TypeError /\ Len(rows.v) = 0
                 THEN "False" ELSE c2

\* `"result" in resp and "rows" in resp["result"]`, line 72: "True", "False",
\* or "TypeError" when one of the two `in` is applied to None or a number or
\* resp["result"] to a str or a list.
FormatCheck(resp) ==
    LET c1 == PyIn("result", resp)
    IN  IF c1 # "True" THEN c1 ELSE PyIn("rows", PyGetItem(resp, "result"))

\* resp["result"]["rows"], line 73.
GetRows(resp) ==
    LET res == PyGetItem(resp, "result")
    IN  IF res = TypeError THEN TypeError ELSE PyGetItem(res, "rows")

\* The messages of the script.
Warning(text)       == [kind |-> "warning", text |-> text]
Success(n)          == [kind |-> "success", text |-> "Successfully retrieved {} rows!", n |-> n]
Error(text)         == [kind |-> "error", text |-> text]
HttpError(st, rsn)  == [kind |-> "error", text |-> "HTTP error: {} {}", status |-> st, reason |-> rsn]
ShowJson(value)     == [kind |-> "json", value |-> value]

MsgNeedKey    == Warning("Please enter your Dune API key to proceed.")
MsgBadFormat  == Error("API response not in expected format.")
MsgCheckKey   == Error("Check API key and Query ID.")
\* f"Network error: {e}", line 102, and f"Unexpected error: {e}", line 105.
MsgNetwork(e)    == [kind |-> "error", text |-> "Network error: {}", exc |-> e]
MsgUnexpected(e) == [kind |-> "error", text |-> "Unexpected error: {}", exc |-> e]

\* The dict of lines 81-90.
Payload(df, qid, utc_ts) ==
    [csv_bytes        |-> convert_df_to_csv(df),
     default_filename |-> default_name(qid, utc_ts),
     df_preview       |-> DfHead(df, PreviewRows),
     meta             |-> [rows |-> DfLen(df), generated_at |-> utc_ts, query_id |-> qid]]

\* A plausible slip in lines 81-90: only the bytes of the stored payload
\* replaced when one is there.
StorePayload_bytes_only(old, new) ==
    IF old = None THEN new ELSE [old EXCEPT !.csv_bytes = new.csv_bytes]

\* st.session_state.download_payload = {...}, line 81: the whole dict stored.
StorePayload(old, new) == new

\* A plausible slip in lines 97-106: a failed fetch leaves the payload alone.
ClearOnFailure_keep(old) == old

\* st.session_state.download_payload = None, lines 96, 100, 103, 106.
ClearOnFailure(old) == None

\* Lines 70-106 once requests.get came back: the payload to hold and the
\* messages surfaced.  `old` is the payload held, `qid` the query id field,
\* `clock` the reading of line 77.
FetchResult(old, api_key, outcome, json_error, qid, clock) ==
    LET r == fetch_dune_data(api_key, qid, outcome, json_error)
    IN  CASE r.raised = "HTTPError" ->                                   \* lines 97-100
               [payload  |-> ClearOnFailure(old),
                messages |-> <<HttpError(r.status, r.reason), MsgCheckKey>>]
          [] r.raised = "RequestException" ->                            \* lines 101-103
               [payload |-> ClearOnFailure(old), messages |-> <<MsgNetwork(r.exc)>>]
          [] r.raised = "Exception" ->                                   \* lines 104-106
               [payload |-> ClearOnFailure(old), messages |-> <<MsgUnexpected(r.exc)>>]
          [] OTHER ->
               LET ok == FormatCheck(r.resp)
               IN  CASE ok = "False" ->                                  \* lines 93-96
                          [payload  |-> ClearOnFailure(old),
                           messages |-> <<MsgBadFormat, ShowJson(r.resp)>>]
                     [] ok = "True" /\ GetRows(r.resp) # TypeError ->    \* lines 73-92
                          LET df == DataFrame(GetRows(r.resp).v)
                          IN  [payload  |-> StorePayload(old, Payload(df, qid, Strftime(clock))),
                               messages |-> <<Success(DfLen(df))>>]
                     [] OTHER ->                                         \* TypeError: lines 104-106
                          [payload  |-> ClearOnFailure(old),
                           messages |-> <<MsgUnexpected(ExcTypeError)>>]

(***************************************************************************)
(* The download section, lines 110-145.                                    *)
(***************************************************************************)
\* s.rsplit(sep, 1)[0]: s up to the last occurrence of sep, s itself when sep
\* does not occur.
RSplitHead(s, sep) ==
    LET occ == {i \in 1..(Len(s) - Len(sep) + 1) : SubSeq(s, i, i + Len(sep) - 1) = sep}
    IN  IF occ = {} THEN s
        ELSE SubSeq(s, 1, (CHOOSE i \in occ : \A j \in occ : j <= i) - 1)

\* payload["default_filename"].rsplit(".csv", 1)[0], lines 124 and 127.
DefaultBase(payload) == RSplitHead(payload.default_filename, CsvExt)

\* The text input of lines 122-126 after a script run that renders it for
\* `payload`.  Streamlit keeps what the user typed as long as the widget is
\* rendered with the same default; a widget with another default is a new one.
NameInput(payload, prev) ==
    IF payload = None THEN None
    ELSE IF prev # None /\ prev.default = DefaultBase(payload) THEN prev
    ELSE [default |-> DefaultBase(payload), value |-> DefaultBase(payload)]

\* A plausible slip in line 127: the raw name offered without sanitizing.
final_name_raw(raw_name, payload) == raw_name \o CsvExt

\* final_name, line 127.
final_name(raw_name, payload) == safe_filename(raw_name, DefaultBase(payload)) \o CsvExt

\* The download button of lines 129-136.
DownloadButton(payload, input) ==
    IF payload = None THEN None
    ELSE [data |-> payload.csv_bytes, file_name |-> final_name(input.value, payload)]

\* The file names a user types in the model of the app.
TypedNames ==
    { <<>>, <<" ">>, <<"a">>, <<"a", "/", "b">>, <<" ", "a", "\t", " ", "b", "?", "*">>,
      <<"b", "a", "d", ":", "n", "a", "m", "e">> }

(***************************************************************************)
(* The app: one action per user interaction, each a whole run of the       *)
(* script.  The fetch is split where the script blocks in requests.get.    *)
(***************************************************************************)
SanIdle  == san_name = <<>> /\ san_default = <<>> /\ san_result = <<>>
              /\ san_again = <<>> /\ san_pc = "start"
NormIdle == norm_rows = <<>> /\ norm_df = None /\ norm_csv = <<>>

\* The outcomes of a fetch that are a success: a response that is not an HTTP
\* error and whose JSON body has result.rows.
IsSuccess(outcome) ==
    /\ outcome.kind = "response"
    /\ ~(400 <= outcome.status /\ outcome.status < 600)
    /\ outcome.body \in GoodBodies

\* The rows of a successful outcome.
RowsOf(outcome) == outcome.body.v[1][2].v[1][2].v

\* What became of the most recent fetch attempt made with an API key that has
\* come back, and whether the results were cleared since (a history variable:
\* the script keeps no such record).
NoAttempt == [state |-> "none"]
Cleared   == [state |-> "cleared"]
Attempt(outcome, qid, clock) ==
    IF IsSuccess(outcome)
    THEN [state |-> "succeeded", rows |-> RowsOf(outcome), query_id |-> qid, clock |-> clock]
    ELSE [state |-> "failed"]

\* Lines 31-37: the session state of a new session, nothing fetched yet.
AppInit ==
    /\ user_api_key = ""
    /\ query_id = DefaultQueryId
    /\ download_payload = None
    /\ name_input = None
    /\ download_button = None
    /\ messages = <<>>
    /\ request = None
    /\ calls = 0
    /\ pc = "idle"
    /\ event = "start"
    /\ returned = None
    /\ last_attempt = NoAttempt

Init == AppInit /\ SanIdle /\ NormIdle

\* A script run that does not enter the fetch handler: lines 110-136 with the
\* payload `payload` and the text input `input`.
Rerun(payload, input, ev) ==
    /\ download_payload' = payload
    /\ name_input' = NameInput(payload, input)
    /\ download_button' = DownloadButton(payload, NameInput(payload, input))
    /\ messages' = <<>>
    /\ request' = None
    /\ calls' = 0
    /\ pc' = "idle"
    /\ event' = ev
    /\ returned' = None
    /\ last_attempt' = IF ev = "clear" THEN Cleared ELSE last_attempt

\* A plausible slip in lines 116-118: the caption made from the query id field.
Caption_of_field(payload) ==
    [rows |-> payload.meta.rows, query_id |-> query_id,
     generated_at |-> payload.meta.generated_at]

\* The caption of lines 116-118, made from the meta of the payload.
Caption(payload) ==
    [rows |-> payload.meta.rows, query_id |-> payload.meta.query_id,
     generated_at |-> payload.meta.generated_at]

\* The user types into the API key field, lines 41-46.
EditApiKey(k) ==
    /\ pc = "idle"
    /\ k # user_api_key
    /\ user_api_key' = k
    /\ query_id' = query_id
    /\ Rerun(download_payload, name_input, "edit_key")
    /\ UNCHANGED <<sanVars, normVars>>

\* A plausible change of lines 57-59: line 59 uncommented, so that a changed
\* input invalidates the prior download.
EditQueryId_invalidating(q) ==
    /\ pc = "idle"
    /\ q # query_id
    /\ query_id' = q
    /\ user_api_key' = user_api_key
    /\ Rerun(None, name_input, "edit_query_id")
    /\ UNCHANGED <<sanVars, normVars>>

\* The user changes the query id field, lines 48-55 (line 59 is a comment:
\* the payload stays).
EditQueryId(q) ==
    /\ pc = "idle"
    /\ q # query_id
    /\ query_id' = q
    /\ user_api_key' = user_api_key
    /\ Rerun(download_payload, name_input, "edit_query_id")
    /\ UNCHANGED <<sanVars, normVars>>

\* The user types into the file-name field, lines 122-127.
EditFilename(typed) ==
    /\ pc = "idle"
    /\ name_input # None
    /\ typed # name_input.value
    /\ Rerun(download_payload, [name_input EXCEPT !.value = typed], "edit_filename")
    /\ UNCHANGED <<user_api_key, query_id, sanVars, normVars>>

\* The user clicks the download button, lines 129-136: the browser gets the
\* button's data under its file_name, and the script runs again.
Download ==
    /\ pc = "idle"
    /\ download_button # None
    /\ Rerun(download_payload, name_input, "download")
    /\ UNCHANGED <<user_api_key, query_id, sanVars, normVars>>

\* A plausible slip in lines 143-145: the rerun of line 145 left out, so that
\* the page keeps the section the run had already rendered.
Clear_without_rerun ==
    /\ pc = "idle"
    /\ download_payload # None
    /\ download_payload' = None
    /\ messages' = <<>>
    /\ request' = None
    /\ calls' = 0
    /\ pc' = "idle"
    /\ event' = "clear"
    /\ returned' = None
    /\ last_attempt' = Cleared
    /\ UNCHANGED <<user_api_key, query_id, name_input, download_button, sanVars, normVars>>

\* The user clicks "Clear Results", lines 143-145: the payload is dropped and
\* st.experimental_rerun() runs the script again, now without the section.
Clear ==
    /\ pc = "idle"
    /\ download_payload # None
    /\ Rerun(None, name_input, "clear")
    /\ UNCHANGED <<user_api_key, query_id, sanVars, normVars>>

\* A plausible slip in lines 65-67: the payload dropped with the warning.
FetchNoKey_clearing ==
    /\ pc = "idle"
    /\ user_api_key = ""
    /\ download_payload' = None
    /\ name_input' = None
    /\ download_button' = None
    /\ messages' = <<MsgNeedKey>>
    /\ request' = None
    /\ calls' = 0
    /\ pc' = "idle"
    /\ event' = "fetch"
    /\ returned' = None
    /\ last_attempt' = last_attempt
    /\ UNCHANGED <<user_api_key, query_id, sanVars, normVars>>

\* The user clicks "Get Query Results" with no API key, lines 65-67, then
\* lines 110-136.
FetchNoKey ==
    /\ pc = "idle"
    /\ user_api_key = ""
    /\ download_payload' = download_payload
    /\ name_input' = NameInput(download_payload, name_input)
    /\ download_button' = DownloadButton(download_payload, NameInput(download_payload, name_input))
    /\ messages' = <<MsgNeedKey>>
    /\ request' = None
    /\ calls' = 0
    /\ pc' = "idle"
    /\ event' = "fetch"
    /\ returned' = None
    /\ last_attempt' = last_attempt
    /\ UNCHANGED <<user_api_key, query_id, sanVars, normVars>>

\* A plausible change of lines 69-71: the payload dropped before the request
\* goes out.
FetchStart_discarding ==
    /\ pc = "idle"
    /\ user_api_key # ""
    /\ request' = Request(user_api_key, query_id)
    /\ calls' = 1
    /\ download_payload' = None
    /\ messages' = <<>>
    /\ pc' = "fetching"
    /\ event' = "fetch"
    /\ returned' = None
    /\ last_attempt' = last_attempt
    /\ UNCHANGED <<user_api_key, query_id, name_input, download_button, sanVars, normVars>>

\* The user clicks "Get Query Results" with an API key, lines 65-71 and 14-16:
\* the request goes out and the script waits inside requests.get.  The page
\* still shows what the last run rendered below the button.
FetchStart ==
    /\ pc = "idle"
    /\ user_api_key # ""
    /\ request' = Request(user_api_key, query_id)
    /\ calls' = 1
    /\ messages' = <<>>
    /\ pc' = "fetching"
    /\ event' = "fetch"
    /\ returned' = None
    /\ last_attempt' = last_attempt
    /\ UNCHANGED <<user_api_key, query_id, download_payload, name_input, download_button,
                   sanVars, normVars>>

\* A plausible change of lines 65-106: a failed attempt is tried once more
\* before its error is surfaced.
FetchReturn_retrying(outcome, json_error, clock) ==
    /\ pc = "fetching"
    /\ (outcome.kind = "InvalidHeader") <=> ~ValidHeaderValue(user_api_key)
    /\ LET res == FetchResult(download_payload, user_api_key, outcome, json_error, query_id, clock)
       IN  /\ download_payload' = res.payload
           /\ messages' = res.messages
           /\ name_input' = NameInput(res.payload, name_input)
           /\ download_button' = DownloadButton(res.payload, NameInput(res.payload, name_input))
           /\ calls' = IF res.payload = None THEN calls + 1 ELSE calls
    /\ returned' = [outcome |-> outcome, json_error |-> json_error, clock |-> clock,
                     before |-> download_payload]
    /\ last_attempt' = Attempt(outcome, query_id, clock)
    /\ pc' = "idle"
    /\ UNCHANGED <<user_api_key, query_id, request, event, sanVars, normVars>>

\* requests.get comes back, lines 16-18 and 72-106, then lines 110-136.  It
\* comes back with an InvalidHeader exactly when the key is not a header value.
FetchReturn(outcome, json_error, clock) ==
    /\ pc = "fetching"
    /\ (outcome.kind = "InvalidHeader") <=> ~ValidHeaderValue(user_api_key)
    /\ LET res == FetchResult(download_payload, user_api_key, outcome, json_error, query_id, clock)
       IN  /\ download_payload' = res.payload
           /\ messages' = res.messages
           /\ name_input' = NameInput(res.payload, name_input)
           /\ download_button' = DownloadButton(res.payload, NameInput(res.payload, name_input))
    /\ returned' = [outcome |-> outcome, json_error |-> json_error, clock |-> clock,
                     before |-> download_payload]
    /\ last_attempt' = Attempt(outcome, query_id, clock)
    /\ pc' = "idle"
    /\ UNCHANGED <<user_api_key, query_id, request, calls, event, sanVars, normVars>>

Next ==
    \/ \E k \in ApiKeys : EditApiKey(k)
    \/ \E q \in QueryIds : EditQueryId(q)
    \/ \E typed \in TypedNames : EditFilename(typed)
    \/ Download
    \/ Clear
    \/ FetchNoKey
    \/ FetchStart
    \/ \E outcome \in Outcomes, json_error \in JsonErrors, clock \in Clocks :
          FetchReturn(outcome, json_error, clock)

Spec == Init /\ [][Next]_vars

(***************************************************************************)
(* safe_filename on generated arguments.                                   *)
(***************************************************************************)
SanChars == {"a", " ", "\t", "/", ":"}

\* The arguments tried: every text over SanChars within the bounds, and the
\* texts of the documented examples.
SanNames ==
    SeqsUpTo(SanChars, MaxNameLen)
      \cup {<<"a", "/", "b", ":", "c">>, <<"b", "a", "d", ":", "n", "a", "m", "e">>}

SanDefaults == SeqsUpTo(SanChars, MaxDefaultLen) \cup {<<"d">>}

InitSan ==
    /\ AppInit
    /\ NormIdle
    /\ san_name \in SanNames
    /\ san_default \in SanDefaults
    /\ san_result = <<>>
    /\ san_again = <<>>
    /\ san_pc = "start"

\* safe_filename(name, default)
Sanitize ==
    /\ san_pc = "start"
    /\ san_result' = safe_filename(san_name, san_default)
    /\ san_pc' = "once"
    /\ UNCHANGED <<san_name, san_default, san_again, appVars, normVars>>

\* safe_filename(safe_filename(name, default), default)
SanitizeAgain ==
    /\ san_pc = "once"
    /\ san_again' = safe_filename(san_result, san_default)
    /\ san_pc' = "twice"
    /\ UNCHANGED <<san_name, san_default, san_result, appVars, normVars>>

NextSan == Sanitize \/ SanitizeAgain

SpecSan == InitSan /\ [][NextSan]_vars

(***************************************************************************)
(* pd.DataFrame and convert_df_to_csv on generated rows.                   *)
(***************************************************************************)
NormRowSets == SeqsUpTo(Records, MaxRows) \cup {ExampleRows}

InitNorm ==
    /\ AppInit
    /\ SanIdle
    /\ norm_rows \in NormRowSets
    /\ norm_df = None
    /\ norm_csv = <<>>

\* Lines 74-75: df = pd.DataFrame(rows); csv_bytes = convert_df_to_csv(df)
Normalize ==
    /\ norm_df = None
    /\ norm_df' = DataFrame(norm_rows)
    /\ norm_csv' = convert_df_to_csv(DataFrame(norm_rows))
    /\ UNCHANGED <<norm_rows, appVars, sanVars>>

NextNorm == Normalize

SpecNorm == InitNorm /\ [][NextNorm]_vars

(***************************************************************************)
(* Properties.                                                             *)
(***************************************************************************)
Range(f) == {f[i] : i \in DOMAIN f}

AllKeys(rows) == UNION {Range(RecordKeys(rows[r])) : r \in 1..Len(rows)}

\* The first record that has key k, and the place of k in it.
FirstRow(rows, k) == CHOOSE r \in 1..Len(rows) :
    /\ HasKey(rows[r], k)
    /\ \A q \in 1..(r - 1) : ~HasKey(rows[q], k)

PlaceIn(rec, k) == CHOOSE i \in 1..Len(rec) : rec[i][1] = k

\* C1 as stated: for every non-empty sequence of row records the columns of
\* the table are the keys of the first record, in their order, whatever keys
\* the later records have.
C1_ColumnsAreFirstRecordKeys ==
    (norm_df # None /\ norm_rows # <<>>) =>
        norm_df.columns = RecordKeys(norm_rows[1])

\* C1 as amended: the columns begin with the keys of the first record in their
\* order, followed by the keys that only later records have, each once, in the
\* order in which they first appear; they are the keys of the first record
\* exactly when no later record has a key the first lacks.
C1_ColumnsInOrderOfFirstAppearance ==
    (norm_df # None /\ norm_rows # <<>>) =>
        LET cols == norm_df.columns
            k0   == RecordKeys(norm_rows[1])
        IN  /\ Len(cols) >= Len(k0)
            /\ SubSeq(cols, 1, Len(k0)) = k0
            /\ Range(cols) = AllKeys(norm_rows)
            /\ \A i, j \in 1..Len(cols) : i # j => cols[i] # cols[j]
            /\ \A i, j \in 1..Len(cols) : i < j =>
                   LET ri == FirstRow(norm_rows, cols[i])
                       rj == FirstRow(norm_rows, cols[j])
                   IN  \/ ri < rj
                       \/ /\ ri = rj
                          /\ PlaceIn(norm_rows[ri], cols[i]) < PlaceIn(norm_rows[rj], cols[j])
            /\ (cols = k0) <=> (AllKeys(norm_rows) \subseteq Range(k0))

\* C1's case: a later record with its keys in another order and a key the
\* first record lacks.
C1_Witness ==
    /\ norm_df # None
    /\ Len(norm_rows) = 2
    /\ RecordKeys(norm_rows[1]) = <<"b">>
    /\ RecordKeys(norm_rows[2]) = <<"a", "b">>
    /\ norm_df.columns = <<"b", "a">>

\* The fetch handler ran to its end in the current script run.
FetchReturned == returned # None /\ pc = "idle"

IsErrorMessage(m) == m.kind = "error"

\* C2: after a fetch with a non-empty API key that failed (HTTP status error,
\* network error, malformed response, any other exception) the session holds
\* no payload and an error message is surfaced, whether or not a payload was
\* held before.
C2_FailureClearsPayload ==
    (FetchReturned /\ ~IsSuccess(returned.outcome)) =>
        /\ download_payload = None
        /\ messages # <<>>
        /\ IsErrorMessage(messages[1])
        /\ name_input = None
        /\ download_button = None

\* C2's case: a failed fetch while a payload was held.
C2_Witness ==
    /\ FetchReturned
    /\ returned.outcome = ConnectionError
    /\ returned.before # None
    /\ download_payload = None
    /\ messages = <<MsgNetwork(ExcConnection(query_id))>>

\* C3: the fetch action with an empty API key makes no network call, surfaces
\* the validation warning and leaves the payload as it was.
C3_EmptyKeyChangesNothing ==
    [][(pc = "idle" /\ event' = "fetch" /\ user_api_key = "") =>
          /\ request' = None
          /\ pc' = "idle"
          /\ returned' = None
          /\ messages' = <<MsgNeedKey>>
          /\ download_payload' = download_payload
          /\ user_api_key' = user_api_key
          /\ query_id' = query_id]_vars

\* C3's case: the warning surfaced while a payload is held.
C3_Witness ==
    /\ event = "fetch"
    /\ user_api_key = ""
    /\ messages = <<MsgNeedKey>>
    /\ request = None
    /\ download_payload # None
    /\ download_button # None

\* C4: the session holds no payload, or one whose csv_bytes, default_filename,
\* preview and meta all come from the same successful fetch; a successful
\* fetch replaces the payload wholesale.
C4_PayloadFromOneFetch ==
    /\ download_payload # None =>
          /\ \E rws \in AppRowSets :
                LET df == DataFrame(rws)
                IN  /\ download_payload.csv_bytes = EncodeUtf8(ToCsv(df))
                    /\ download_payload.df_preview = df
                    /\ download_payload.meta.rows = Len(rws)
          /\ download_payload.default_filename =
                DuneQueryPrefix \o Decimal(download_payload.meta.query_id) \o <<"_">>
                  \o download_payload.meta.generated_at \o CsvExt
    /\ (FetchReturned /\ IsSuccess(returned.outcome)) =>
          LET df == DataFrame(RowsOf(returned.outcome))
          IN  /\ download_payload # None
              /\ download_payload.csv_bytes = EncodeUtf8(ToCsv(df))
              /\ download_payload.df_preview = df
              /\ download_payload.meta.rows = Len(RowsOf(returned.outcome))
              /\ download_payload.meta.query_id = query_id
              /\ download_payload.meta.generated_at = Strftime(returned.clock)

\* C4's case: a successful fetch replaced a payload of another query, with
\* other rows, made at another time.
C4_Witness ==
    /\ FetchReturned
    /\ IsSuccess(returned.outcome)
    /\ returned.before # None
    /\ returned.before.csv_bytes # download_payload.csv_bytes
    /\ returned.before.meta.query_id # download_payload.meta.query_id
    /\ returned.before.meta.generated_at # download_payload.meta.generated_at
    /\ returned.before.meta.rows # download_payload.meta.rows

\* C5 as stated: while a request is in flight the session holds no payload.
C5_NoPayloadWhileFetching ==
    pc = "fetching" => download_payload = None

\* C5 as amended: a new fetch attempt with valid inputs does not touch the
\* payload until requests.get comes back: while the request is in flight the
\* session holds the payload it held before, and what the request comes back
\* with replaces it (success) or clears it (failure).
C5_PayloadKeptWhileFetching ==
    [][/\ pc' = "fetching" => download_payload' = download_payload
       /\ (pc = "fetching" /\ pc' = "idle") =>
             /\ returned'.before = download_payload
             /\ IF IsSuccess(returned'.outcome)
                THEN download_payload' # None
                        /\ download_payload'.meta.generated_at = Strftime(returned'.clock)
                ELSE download_payload' = None]_vars

\* C5's case: a request in flight while a payload is held.
C5_Witness ==
    /\ pc = "fetching"
    /\ request # None
    /\ download_payload # None
    /\ download_button # None

Is2xx(status) == 200 <= status /\ status < 300

\* The two messages of the HTTPError branch.
HttpMessages(status) == <<HttpError(status, Reason(status)), MsgCheckKey>>

\* C6 as stated: every response whose status is not 2xx fails with the HTTP
\* error carrying status and reason: no payload, and the message to check the
\* key and the query id.
C6_Non2xxIsHttpError ==
    (FetchReturned /\ returned.outcome.kind = "response"
        /\ ~Is2xx(returned.outcome.status)) =>
        /\ download_payload = None
        /\ messages = HttpMessages(returned.outcome.status)

\* C6 as amended: every response whose status is 4xx or 5xx fails with the
\* HTTP error carrying status and reason: no payload, and the message to check
\* the key and the query id; no other response is reported as an HTTP error.
C6_4xx5xxIsHttpError ==
    (FetchReturned /\ returned.outcome.kind = "response") =>
        LET status == returned.outcome.status
        IN  IF 400 <= status /\ status < 600
            THEN /\ download_payload = None
                 /\ name_input = None
                 /\ download_button = None
                 /\ messages = HttpMessages(status)
            ELSE \A i \in 1..Len(messages) : messages[i] # MsgCheckKey

\* C6's case: a 403 while a payload was held.
C6_Witness ==
    /\ FetchReturned
    /\ returned.outcome.kind = "response"
    /\ returned.outcome.status = 403
    /\ returned.before # None
    /\ download_payload = None
    /\ messages = <<HttpError(403, "Forbidden"), MsgCheckKey>>

\* A JSON body has result.rows: it is an object whose "result" is an object
\* with a "rows" member.
HasMember(value, key) ==
    value.t = "obj" /\ \E i \in 1..Len(value.v) : value.v[i][1] = key

HasResultRows(body) ==
    /\ HasMember(body, "result")
    /\ HasMember(body.v[CHOOSE i \in 1..Len(body.v) : body.v[i][1] = "result"][2], "rows")

\* C7: whenever the JSON body of a 2xx response lacks result.rows (no
\* "result", a "result" without "rows", a "result" that is not an object), the
\* "not in expected format" message is surfaced with the raw response and the
\* payload is cleared; it is reported as no other kind of failure.
C7_LacksRowsIsMalformed ==
    (FetchReturned /\ returned.outcome.kind = "response"
        /\ Is2xx(returned.outcome.status)
        /\ returned.outcome.body.t = "obj"
        /\ ~HasResultRows(returned.outcome.body)) =>
        /\ download_payload = None
        /\ messages = <<MsgBadFormat, ShowJson(returned.outcome.body)>>

\* The part of C7 the code keeps: such a response always clears the payload
\* and surfaces an error.
C7_LacksRowsClearsPayload ==
    (FetchReturned /\ returned.outcome.kind = "response"
        /\ Is2xx(returned.outcome.status)
        /\ returned.outcome.body # NotJson
        /\ ~HasResultRows(returned.outcome.body)) =>
        /\ download_payload = None
        /\ messages # <<>>
        /\ IsErrorMessage(messages[1])

(***************************************************************************)
(* What safe_filename is documented to compute, stated on the positions of *)
(* the trimmed text rather than by substitution.                           *)
(***************************************************************************)
CharClass(c) ==
    IF c \in Whitespace THEN "space" ELSE IF c \in Reserved THEN "reserved" ELSE "other"

Image(c) ==
    IF c \in Whitespace THEN " " ELSE IF c \in Reserved THEN "_" ELSE c

\* x between its first and its last character that is not whitespace.
Trimmed(x) ==
    LET solid == {i \in 1..Len(x) : x[i] \notin Whitespace}
    IN  IF solid = {} THEN <<>>
        ELSE SubSeq(x, CHOOSE i \in solid : \A j \in solid : i <= j,
                       CHOOSE i \in solid : \A j \in solid : j <= i)

\* The positions of t a cleaned text keeps: of a run of whitespace and of a run
\* of reserved characters the first; with `per_char`, every reserved character.
Kept(t, per_char) ==
    SelectSeq([i \in 1..Len(t) |-> i],
              LAMBDA i : \/ i = 1
                         \/ CharClass(t[i]) = "other"
                         \/ CharClass(t[i]) # CharClass(t[i - 1])
                         \/ per_char /\ CharClass(t[i]) = "reserved")

Cleaned(x, per_char) ==
    LET t == Trimmed(x)
        k == Kept(t, per_char)
    IN  [n \in 1..Len(k) |-> Image(t[k[n]])]

Specified(x, fallback, per_char) ==
    IF Cleaned(x, per_char) = <<>> THEN fallback ELSE Cleaned(x, per_char)

\* C8 as stated: safe_filename trims, collapses each whitespace run to one
\* blank, replaces each reserved character with one "_" per character, and
\* returns the fallback when nothing is left.
C8_OneUnderscorePerCharacter ==
    san_pc # "start" => san_result = Specified(san_name, san_default, TRUE)

\* C8 as amended: safe_filename trims, collapses each whitespace run to one
\* blank, replaces each maximal run of reserved characters with one "_", and
\* returns the fallback when nothing is left; sanitize("", f) = f and
\* sanitize("a/b:c", "d") = "a_b_c".
C8_OneUnderscorePerRun ==
    san_pc # "start" =>
        /\ san_result = Specified(san_name, san_default, FALSE)
        /\ san_name = <<>> => san_result = san_default
        /\ (san_name = <<"a", "/", "b", ":", "c">> /\ san_default = <<"d">>) =>
              san_result = <<"a", "_", "b", "_", "c">>

\* C8's case: whitespace to trim and to collapse, and a run of two reserved
\* characters.
C8_Witness ==
    /\ san_pc = "once"
    /\ san_name = <<"\t", "/", ":">>
    /\ san_result = <<"_">>

\* C9 as stated: sanitize(sanitize(x, f), f) = sanitize(x, f) for every x, f.
C9_Idempotent ==
    san_pc = "twice" => san_again = san_result

\* C9 as amended: sanitize(sanitize(x, f), f) = sanitize(x, f) for every x
\* with a character that is not whitespace, whatever f; for an empty or blank
\* x it holds exactly when sanitizing leaves the fallback alone,
\* sanitize(f, f) = f.
C9_IdempotentUnlessFallbackUnclean ==
    san_pc = "twice" =>
        /\ Trimmed(san_name) # <<>> => san_again = san_result
        /\ Trimmed(san_name) = <<>> =>
              /\ san_result = san_default
              /\ (san_again = san_result) <=> (Specified(san_default, san_default, FALSE) = san_default)

\* C9's case: a name that sanitizing changes, sanitized twice.
C9_Witness ==
    /\ san_pc = "twice"
    /\ san_name = <<" ", "a", "/">>
    /\ san_result = <<"a", "_">>
    /\ san_again = <<"a", "_">>

BadName == <<"b", "a", "d", ":", "n", "a", "m", "e">>

\* C10: wherever a download is offered, the file name is sanitize(file-name
\* input, stored default base name) with ".csv" appended once: it ends in
\* ".csv", its base is not empty, it has no reserved character, and it is the
\* generated default dune_query_{id}_{timestamp}.csv when the input is empty
\* or blank; the input "bad:name" offers bad_name.csv.
C10_OfferedFileName ==
    download_button # None =>
        LET name == download_button.file_name
            base == SubSeq(name, 1, Len(name) - Len(CsvExt))
            gen  == DuneQueryPrefix \o Decimal(download_payload.meta.query_id) \o <<"_">>
                      \o download_payload.meta.generated_at
        IN  /\ download_payload # None /\ name_input # None
            /\ download_button.data = download_payload.csv_bytes
            /\ Len(name) > Len(CsvExt)
            /\ SubSeq(name, Len(name) - Len(CsvExt) + 1, Len(name)) = CsvExt
            /\ base = Specified(name_input.value, gen, FALSE)
            /\ \A i \in 1..Len(name) : name[i] \notin Reserved
            /\ Trimmed(name_input.value) = <<>> => name = gen \o CsvExt
            /\ name_input.value = BadName =>
                  name = <<"b", "a", "d", "_", "n", "a", "m", "e">> \o CsvExt

\* C10's case: the file name edited to "bad:name" after a successful fetch.
C10_Witness ==
    /\ download_button # None
    /\ event = "edit_filename"
    /\ name_input.value = BadName
    /\ download_button.file_name = <<"b", "a", "d", "_", "n", "a", "m", "e", ".", "c", "s", "v">>

\* C11: the payload changes only through a fetch attempt with a non-empty API
\* key or through the clear action; editing the API key, the query id or the
\* file name leaves it as it is, and a file-name edit changes nothing but the
\* file name of the next download.
C11_OnlyFetchAndClearChangePayload ==
    [][/\ download_payload' # download_payload =>
             \/ pc = "fetching" /\ request.headers[1][2] # ""
             \/ event' = "clear"
       /\ event' \in {"edit_key", "edit_query_id", "edit_filename", "download"} =>
             /\ download_payload' = download_payload
             /\ download_payload # None =>
                   /\ download_button' # None
                   /\ download_button'.data = download_payload.csv_bytes
                   /\ name_input'.default = DefaultBase(download_payload)
       /\ event' = "edit_filename" =>
             /\ user_api_key' = user_api_key
             /\ query_id' = query_id
             /\ download_button'.data = download_button.data
             /\ name_input'.default = name_input.default]_vars

\* C11's case: all three fields edited while a payload is held: the key and
\* the query id differ from those of the fetch, the file name from its default.
C11_Witness ==
    /\ download_payload # None
    /\ event = "edit_filename"
    /\ user_api_key = ""
    /\ query_id # download_payload.meta.query_id
    /\ name_input.value # name_input.default
    /\ download_button.data = download_payload.csv_bytes

\* C12: the clear action is available only while a payload is held; it drops
\* the payload, after which neither the file-name input nor the download
\* button is on the page until a fetch succeeds, and it leaves the API key and
\* the query id as they are.
C12_ClearLeadsToIdle ==
    [][/\ event' = "clear" =>
             /\ download_payload # None
             /\ download_payload' = None
             /\ name_input' = None
             /\ download_button' = None
             /\ pc' = "idle"
             /\ request' = None
             /\ user_api_key' = user_api_key
             /\ query_id' = query_id
       /\ (download_payload = None /\ pc = "idle") =>
             /\ download_button = None /\ name_input = None
             /\ ~(ENABLED Clear)
       /\ (download_button = None /\ download_button' # None) =>
             /\ pc = "fetching"
             /\ IsSuccess(returned'.outcome)]_vars

\* C12's case: results cleared with a key and another query id in the fields.
C12_Witness ==
    /\ event = "clear"
    /\ download_payload = None
    /\ download_button = None
    /\ name_input = None
    /\ user_api_key # ""
    /\ query_id # DefaultQueryId

RECURSIVE SplitOn(_, _)
SplitOn(s, sep) ==
    IF s = <<>> THEN << <<>> >>
    ELSE LET rest == SplitOn(Tail(s), sep)
         IN  IF Head(s) = sep THEN << <<>> >> \o rest
             ELSE << <<Head(s)>> \o rest[1] >> \o Tail(rest)

Newline == CodePoint("\n")
Comma   == CodePoint(",")

\* C14: for every non-empty sequence of row records, every row of the table
\* and every data line of the CSV has exactly the table's columns, in their
\* order; a value stands under the column of its key, not at its position in
\* the record, and where a record has no value for a column the table has NaN
\* and the CSV line an empty field, so that no column is dropped. The rows of
\* the running example give the lines a,b / 1,2 / 4,3.
C14_ValuesUnderTheirKeys ==
    (norm_df # None /\ norm_rows # <<>>) =>
        LET cols  == norm_df.columns
            lines == SplitOn(norm_csv, Newline)
        IN  /\ Range(cols) = AllKeys(norm_rows)
            /\ \A c, d \in 1..Len(cols) : c # d => cols[c] # cols[d]
            /\ Len(norm_df.data) = Len(norm_rows)
            /\ Len(lines) = Len(norm_rows) + 2
            /\ lines[Len(lines)] = <<>>
            /\ SplitOn(lines[1], Comma) = [c \in 1..Len(cols) |-> EncodeUtf8(<<cols[c]>>)]
            /\ \A r \in 1..Len(norm_rows) :
                  LET fields == SplitOn(lines[r + 1], Comma)
                  IN  /\ Len(norm_df.data[r]) = Len(cols)
                      /\ Len(fields) = Len(cols)
                      /\ \A c \in 1..Len(cols) :
                            IF HasKey(norm_rows[r], cols[c])
                            THEN LET v == Lookup(norm_rows[r], cols[c])
                                 IN  /\ norm_df.data[r][c] = Cell(v)
                                     /\ fields[c] \in
                                          {EncodeUtf8(Decimal(v)),
                                           EncodeUtf8(Decimal(v) \o <<".", "0">>)}
                            ELSE /\ norm_df.data[r][c] = NaN
                                 /\ fields[c] = <<>>
            /\ norm_rows = ExampleRows =>
                  /\ cols = <<"a", "b">>
                  /\ norm_df.data = << <<Cell(1), Cell(2)>>, <<Cell(4), Cell(3)>> >>
                  /\ norm_csv = <<97, 44, 98, 10, 49, 44, 50, 10, 52, 44, 51, 10>>

\* C14's case: the rows of the running example, whose second record has its
\* keys in the other order, turned into a table and into CSV.
C14_Witness ==
    /\ norm_rows = ExampleRows
    /\ norm_df # None
    /\ norm_df.data[2] = <<Cell(4), Cell(3)>>
    /\ SplitOn(norm_csv, Newline)[3] = <<52, 44, 51>>

\* C15: a successful response whose result.rows is empty gives a table with no
\* columns and no rows and counts as a success: a payload is held whose row
\* count is 0 and whose preview is empty, the download is offered, and the
\* success message, no error, is surfaced.
C15_EmptyRowsIsSuccess ==
    (FetchReturned /\ IsSuccess(returned.outcome) /\ Len(RowsOf(returned.outcome)) = 0) =>
        /\ download_payload # None
        /\ download_payload.meta.rows = 0
        /\ Len(download_payload.df_preview.columns) = 0
        /\ Len(download_payload.df_preview.data) = 0
        /\ download_payload.meta.query_id = query_id
        /\ download_button # None
        /\ download_button.data = download_payload.csv_bytes
        /\ messages = <<Success(0)>>
        /\ \A i \in 1..Len(messages) : ~IsErrorMessage(messages[i])

\* C15's case: a fetch came back with {"result": {"rows": []}} while a payload
\* with rows was held.
C15_Witness ==
    /\ FetchReturned
    /\ returned.outcome.kind = "response"
    /\ returned.outcome.status = 200
    /\ returned.outcome.body = JObj(<< <<"result", JObj(<< <<"rows", JRows(<<>>)>> >>)>> >>)
    /\ returned.before # None
    /\ returned.before.meta.rows = 2
    /\ download_payload # None
    /\ download_payload.meta.rows = 0

\* A surfaced message shows the key: the text of its exception quotes it.
ShowsKey(m, key) ==
    /\ "exc" \in DOMAIN m
    /\ "quoted" \in DOMAIN m.exc
    /\ m.exc.quoted = key

\* The URL is made of the query id alone and the key is sent as the value of
\* the one header; the payload is made of the table, the query id and the
\* time stamp alone.
KeyOnlyInHeader ==
    /\ request # None =>
          /\ request.url = <<"https://api.dune.com/api/v1/query/", Decimal(query_id), "/results">>
          /\ request.headers = << <<"X-DUNE-API-KEY", user_api_key>> >>
    /\ download_payload # None =>
          /\ DOMAIN download_payload = {"csv_bytes", "default_filename", "df_preview", "meta"}
          /\ DOMAIN download_payload.meta = {"rows", "generated_at", "query_id"}
          /\ download_payload =
                Payload(download_payload.df_preview, download_payload.meta.query_id,
                        download_payload.meta.generated_at)

\* C16: the API key is sent only in the header of the outbound call: whatever
\* the actions and the outcomes of the fetches, its value is not in the URL,
\* not in the stored payload and not in any surfaced message (warning, HTTP,
\* network, malformed-response or unexpected-error text).
C16_KeyOnlyInHeader ==
    /\ KeyOnlyInHeader
    /\ \A i \in 1..Len(messages) : ~ShowsKey(messages[i], user_api_key)

\* The part of C16 the code keeps: the key is in no URL and in no payload, and
\* a key that requests accepts as a header value is in no surfaced message.
C16_AcceptedKeyOnlyInHeader ==
    /\ KeyOnlyInHeader
    /\ ValidHeaderValue(user_api_key) =>
          \A i \in 1..Len(messages) : ~ShowsKey(messages[i], user_api_key)

\* The download section is on the page: the preview, the file-name input and
\* the download button.
SectionShown == download_button # None /\ name_input # None

\* C17: the preview and the download are on the page if and only if the most
\* recent fetch made with a non-empty API key that has come back succeeded
\* and the results were not cleared since; the bytes offered are then the CSV
\* of that fetch and the caption reports that fetch's query id, row count and
\* time, whatever the query id field holds now.
C17_ShownIffLastFetchSucceeded ==
    /\ SectionShown <=> last_attempt.state = "succeeded"
    /\ SectionShown <=> download_payload # None
    /\ SectionShown =>
          LET df == DataFrame(last_attempt.rows)
          IN  /\ download_button.data = EncodeUtf8(ToCsv(df))
              /\ download_payload.df_preview = DfHead(df, PreviewRows)
              /\ Caption(download_payload) =
                    [rows |-> Len(last_attempt.rows), query_id |-> last_attempt.query_id,
                     generated_at |-> Strftime(last_attempt.clock)]

\* C17's case: after a successful fetch the key was removed and the query id
\* changed, and a fetch without a key was tried: the section still shows the
\* fetch that succeeded.
C17_Witness ==
    /\ SectionShown
    /\ pc = "idle"
    /\ event = "fetch"
    /\ user_api_key = ""
    /\ last_attempt.state = "succeeded"
    /\ query_id # last_attempt.query_id
    /\ Caption(download_payload).query_id = last_attempt.query_id
    /\ Len(last_attempt.rows) = 2

====
